---- MODULE Spec2Model ----
(***************************************************************************)
(* A model of the storefront scraper of src/scraper.py                     *)
(* (ShopifyStoreScraper): the orchestrator scrape_store as a state machine *)
(* whose steps are the homepage GET, the field extractors and every        *)
(* sub-page GET, and the field extractors as operators over a bounded      *)
(* model of the parsed homepage, of the catalog feed and of the sub-pages. *)
(*                                                                         *)
(* Strings are sequences of tokens: " " is one whitespace character, Lorem *)
(* is a block of MinPolicyLen non-blank characters, every other token is a *)
(* word without whitespace.  Python values carry their type in a tag       *)
(* ([t |-> "str" | "list" | "dict" | "none", v |-> payload]).              *)
(***************************************************************************)
EXTENDS Integers, Sequences, FiniteSets, TLC

VARIABLES
    pc,          \* position of scrape_store (the extractor it is in)
    website_url, \* the argument of scrape_store, normalized at line 27
    response,    \* the homepage response (local `response` of scrape_store)
    soup,        \* the parsed homepage
    insights,    \* the result under construction
    outcome,     \* "running", "not_found" (None), "profile", "raised"
    fetched,     \* the last response an extractor received for a sub-page
    idx,         \* loop position in the candidate paths of a prober
    arg,         \* input of an extractor checked on its own
    res,         \* its result
    tried        \* the GETs a prober checked on its own has issued

vars == <<pc, website_url, response, soup, insights, outcome, fetched, idx,
          arg, res, tried>>

\* ------------------------------------------------------------------ bounds

MaxHomeLinks == 2
MaxHeroLinks == 7
MaxSocialLinks == 2
MaxSiblings == 3
MaxVariants == 3
MaxTitleLen == 3

\* ------------------------------------------------------- program constants

MinPolicyLen == 100
HeroLimit == 6
OkStatus == 200

\* ------------------------------------------------------------ Python values

PyNone == [t |-> "none", v |-> <<>>]
PyStr(s) == [t |-> "str", v |-> s]
PyList(s) == [t |-> "list", v |-> s]
PyDict(d) == [t |-> "dict", v |-> d]

Min(S) == CHOOSE x \in S : \A y \in S : x <= y
Max(S) == CHOOSE x \in S : \A y \in S : x >= y

RECURSIVE SeqsUpTo(_, _)
SeqsUpTo(S, n) ==
    IF n = 0 THEN {<<>>}
    ELSE LET shorter == SeqsUpTo(S, n - 1)
         IN shorter \cup {Append(s, x) : s \in {t \in shorter : Len(t) = n - 1}, x \in S}

\* ------------------------------------------------------------------ strings

WS == " "
Lorem == "lorem"

\* len(s): Lorem stands for MinPolicyLen characters, any other token of the
\* texts measured here (WS, "x") for one.
PyLen(s) ==
    LET RECURSIVE Sum(_)
        Sum(i) == IF i = 0 THEN 0
                  ELSE Sum(i - 1) + (IF s[i] = Lorem THEN MinPolicyLen ELSE 1)
    IN Sum(Len(s))

\* str.strip(): leading and trailing whitespace removed.
PyStrip(s) ==
    LET nz == {i \in 1..Len(s) : s[i] # WS}
    IN IF nz = {} THEN <<>> ELSE SubSeq(s, Min(nz), Max(nz))

\* bool(s) of a str-or-None value.
Truthy(x) == x.t # "none" /\ x.v # <<>>

\* --------------------------------------------------------------------- URLs

\* A URL or link target: scheme ("" when relative), host (tokens such as
\* "www.", "acme", ".com"), path (its segments), and bad for a target whose
\* netloc has an unbalanced "[" (urlsplit raises ValueError on it).
Url(s, h, p) == [scheme |-> s, host |-> h, path |-> p, bad |-> FALSE]
Rel(p) == Url("", <<>>, p)
BadHref(p) == [scheme |-> "http://", host |-> <<"[x">>, path |-> p, bad |-> TRUE]

\* scrape_store, lines 26-27: a URL without scheme gets "https://".
NormalizeUrl(u) ==
    IF u.scheme \in {"http://", "https://"} THEN u
    ELSE [u EXCEPT !.scheme = "https://"]

\* urljoin(base, href) for the targets modelled: a target with a scheme is
\* kept, a rooted path is resolved against the base's scheme and host.
UrlJoin(base, h) ==
    IF h.scheme # "" THEN h
    ELSE [h EXCEPT !.scheme = base.scheme, !.host = base.host]

\* ---------------------------------------------------------------- documents

\* The parsed homepage: title (get_text() of <title>, PyNone without one),
\* site_name (content of the og:site_name meta tag, PyNone without tag or
\* attribute), imgs (the alt attribute of each <img>, PyNone without one),
\* links (the anchors carrying href, in document order) and text
\* (soup.get_text()).
Doc(title, site, imgs, links, text) ==
    [title |-> title, site_name |-> site, imgs |-> imgs, links |-> links,
     text |-> text]

\* An anchor: href, its text, the src of its first <img> ("" without), the
\* text of its first descendant of class price (<<>> without), and whether
\* it lies inside nav/header/footer.
Anchor(h, txt, img, price, nav) ==
    [href |-> h, text |-> txt, img |-> img, price |-> price, nav |-> nav]

\* ------------------------------------------------- store name (lines 98-123)

IsSep(tok) == tok \in {"-", "|"}
IsSuffixWord(tok) == tok \in {"Shop", "store", "Online", "eCommerce"}

\* Whether \s*[-|]\s*(Shop|Store|Online|eCommerce) matches at position i
\* (IGNORECASE).
SuffixMatchesAt(s, i) ==
    \E j \in i..Len(s), k \in i..Len(s) :
        /\ j < k
        /\ \A m \in i..(j - 1) : s[m] = WS
        /\ IsSep(s[j])
        /\ \A m \in (j + 1)..(k - 1) : s[m] = WS
        /\ IsSuffixWord(s[k])

\* re.sub(r'\s*[-|]\s*(Shop|Store|Online|eCommerce).*$', '', title): the
\* leftmost match is cut, with everything after it.
RemoveSuffix(s) ==
    LET starts == {i \in 1..Len(s) : SuffixMatchesAt(s, i)}
    IN IF starts = {} THEN s ELSE SubSeq(s, 1, Min(starts) - 1)

\* str.lower() and str.title() on the tokens of the samples.
LowerTok(tok) ==
    CASE tok = "Logo" -> "logo"
      [] tok = "IMAGE" -> "image"
      [] tok = "Acme" -> "acme"
      [] OTHER -> tok
PyLower(s) == [i \in 1..Len(s) |-> LowerTok(s[i])]

TitleTok(tok) ==
    CASE tok = "acme-goods" -> "Acme-Goods"
      [] tok = "acme" -> "Acme"
      [] tok = "example" -> "Example"
      [] tok = "shop." -> "Shop."
      [] tok = ".myshopify" -> ".Myshopify"
      [] tok = ".io" -> ".Io"
      [] OTHER -> tok
PyTitle(s) == [i \in 1..Len(s) |-> TitleTok(s[i])]

\* str.replace(pat, ''): every occurrence, left to right.
RECURSIVE PyRemove(_, _)
PyRemove(s, pat) ==
    IF Len(s) < Len(pat) \/ pat = <<>> THEN s
    ELSE IF SubSeq(s, 1, Len(pat)) = pat
         THEN PyRemove(SubSeq(s, Len(pat) + 1, Len(s)), pat)
         ELSE <<Head(s)>> \o PyRemove(Tail(s), pat)

\* Lines 101-107: the title, stripped, without its shop suffix.
TitleName(doc) ==
    IF doc.title.t = "none" THEN <<>>
    ELSE RemoveSuffix(PyStrip(doc.title.v))

\* Lines 110-112: the og:site_name content, tested before it is stripped.
SiteNameFound(doc) == Truthy(doc.site_name)
SiteName(doc) == PyStrip(doc.site_name.v)

\* Line 115: soup.find('img', alt=True), the first <img> that carries an alt
\* attribute, whatever its value.
FirstAltImg(doc) ==
    LET has == {i \in 1..Len(doc.imgs) : doc.imgs[i].t # "none"}
    IN IF has = {} THEN PyNone ELSE doc.imgs[Min(has)]

\* Lines 116-119.
LogoName(doc) ==
    LET logo == FirstAltImg(doc)
        alt_text == IF Truthy(logo) THEN PyStrip(logo.v) ELSE <<>>
    IN IF alt_text # <<>> /\ PyLower(alt_text) \notin {<<"logo">>, <<"image">>}
       THEN alt_text ELSE <<>>

\* Lines 122-123.
DomainName(url) ==
    PyTitle(PyRemove(PyRemove(PyRemove(url.host, <<"www.">>), <<".com">>),
                     <<".myshopify", ".com">>))

ExtractStoreName(doc, url) ==
    IF TitleName(doc) # <<>> THEN PyStr(TitleName(doc))
    ELSE IF SiteNameFound(doc) THEN PyStr(SiteName(doc))
    ELSE IF LogoName(doc) # <<>> THEN PyStr(LogoName(doc))
    ELSE PyStr(DomainName(url))

\* -------------------------------------------- hero products (lines 171-216)

\* re.compile(r'/products/') found in the href: a path segment "products"
\* with a "/" after it.
IsProductHref(h) == \E i \in 1..(Len(h.path) - 1) : h.path[i] = "products"

\* Line 177: soup.find_all('a', href=re.compile(r'/products/')).
ProductLinks(doc) ==
    LET IsProductLink(a) == IsProductHref(a.href)
    IN SelectSeq(doc.links, IsProductLink)

\* s[:n]
FirstN(s, n) == SubSeq(s, 1, IF Len(s) < n THEN Len(s) ELSE n)

\* Lines 186-209: the entry of one link.
HeroInfo(link, url) ==
    [title |-> PyStrip(link.text), url |-> UrlJoin(url, link.href),
     image |-> link.img, price |-> PyStrip(link.price)]

\* Lines 180-209: the loop over the sliced links.  urljoin raises on a bad
\* href; the except of line 213 ends the loop and line 216 returns what was
\* collected.
RECURSIVE HeroLoop(_, _, _, _)
HeroLoop(links, url, seen_products, hero_products) ==
    IF links = <<>> THEN hero_products
    ELSE LET link == Head(links)
         IN IF link.href \in seen_products
            THEN HeroLoop(Tail(links), url, seen_products, hero_products)
            ELSE IF link.href.bad THEN hero_products
            ELSE LET info == HeroInfo(link, url)
                     kept == IF info.title # <<>> \/ info.image # ""
                             THEN Append(hero_products, info) ELSE hero_products
                 IN HeroLoop(Tail(links), url, seen_products \cup {link.href}, kept)

\* Line 180 slices before the loop removes repeated hrefs.
ScrapeHeroProducts(doc, url) ==
    PyList(HeroLoop(FirstN(ProductLinks(doc), HeroLimit), url, {}, <<>>))

\* ------------------------------------------- social handles (lines 287-326)

\* social_patterns, lines 291-298, in dict order; a pattern is named by the
\* domain it looks for ("at" is r'@([a-zA-Z0-9_.]+)').
Platforms == <<"instagram", "facebook", "twitter", "tiktok", "youtube", "linkedin">>
SocialPatterns(platform) ==
    CASE platform = "instagram" -> <<"instagram", "at">>
      [] platform = "twitter" -> <<"twitter", "x">>
      [] OTHER -> <<platform>>

\* What r'@([a-zA-Z0-9_.]+)' captures in a token ("" when it has no match).
AtCapture(tok) ==
    CASE tok = "hi@acme.com" -> "acme.com"
      [] tok = "@acme_ig" -> "acme_ig"
      [] tok = "@acmetok" -> "acmetok"
      [] OTHER -> ""

\* What r'<domain>\.com/([^/\s"\']+)' captures in a token of the page text.
TextUrlCapture(domain, tok) ==
    CASE domain = "instagram" /\ tok = "instagram.com/ig_text" -> "ig_text"
      [] domain = "twitter" /\ tok = "twitter.com/tw_text" -> "tw_text"
      [] domain = "facebook" /\ tok = "facebook.com/fb_text" -> "fb_text"
      [] OTHER -> ""

FirstCapture(caps) ==
    LET hit == {i \in 1..Len(caps) : caps[i] # ""}
    IN IF hit = {} THEN "" ELSE caps[Min(hit)]

\* re.search(pattern, href, re.IGNORECASE).group(1), "" without match.
SearchHref(pattern, h) ==
    LET n == Len(h.host)
        onDomain == /\ n >= 2 /\ h.host[n - 1] = pattern /\ h.host[n] = ".com"
                    /\ h.path # <<>>
    IN CASE pattern = "at" -> FirstCapture([i \in 1..Len(h.path) |-> AtCapture(h.path[i])])
         [] pattern = "tiktok" -> IF onDomain THEN AtCapture(h.path[1]) ELSE ""
         [] OTHER -> IF onDomain THEN h.path[1] ELSE ""

\* re.search(pattern, page_text, re.IGNORECASE).group(1), "" without match.
SearchText(pattern, text) ==
    CASE pattern = "at" -> FirstCapture([i \in 1..Len(text) |-> AtCapture(text[i])])
      [] pattern = "tiktok" -> ""
      [] OTHER -> FirstCapture([i \in 1..Len(text) |-> TextUrlCapture(pattern, text[i])])

\* Lines 307-315: the first link whose href the pattern matches (0: none).
FirstLinkMatch(pattern, links) ==
    LET hit == {i \in 1..Len(links) : SearchHref(pattern, links[i].href) # ""}
    IN IF hit = {} THEN 0 ELSE Min(hit)

\* Lines 305-324 for one pattern: entry is social_handles[platform] before
\* (PyNone when the platform has no entry), the value is the entry after.
SocialStep(platform, pattern, doc, entry) ==
    LET i == FirstLinkMatch(pattern, doc.links)
        fromLink == IF i = 0 THEN entry
                    ELSE PyDict([handle |-> SearchHref(pattern, doc.links[i].href),
                                 url |-> doc.links[i].href])
        cap == SearchText(pattern, doc.text)
    IN IF fromLink.t = "none" /\ cap # ""
       THEN PyDict([handle |-> cap,
                    url |-> Url("https://", <<platform, ".com">>, <<cap>>)])
       ELSE fromLink

RECURSIVE SocialEntry(_, _, _, _)
SocialEntry(platform, patterns, doc, entry) ==
    IF patterns = <<>> THEN entry
    ELSE SocialEntry(platform, Tail(patterns), doc,
                     SocialStep(platform, Head(patterns), doc, entry))

ExtractSocialHandles(doc) ==
    LET entryOf == [i \in 1..Len(Platforms) |->
                      SocialEntry(Platforms[i], SocialPatterns(Platforms[i]), doc, PyNone)]
        found == {i \in 1..Len(Platforms) : entryOf[i].t # "none"}
    IN PyDict([p \in {Platforms[i] : i \in found} |->
                 entryOf[CHOOSE i \in found : Platforms[i] = p]])

\* ---------------------------------------------- price range (lines 158-169)

\* bool(x) of a JSON value: None, 0 and "" are false.
JsonTruthy(x) ==
    CASE x.t = "none" -> FALSE
      [] x.t = "num" -> x.v # 0
      [] OTHER -> x.v # <<>>

PyNum(n) == [t |-> "num", v |-> n]

\* Whether float(x) returns, and what: the feed's price strings and numbers.
FloatParses(x) == x.t = "num" \/ (x.t = "str" /\ x.v \in {<<"10.00">>, <<"25.00">>})
FloatOf(x) ==
    CASE x.t = "num" -> x.v
      [] x.v = <<"10.00">> -> 10
      [] x.v = <<"25.00">> -> 25
      [] OTHER -> 0

\* Line 163: the variants whose price is truthy, in order.
PricedVariants(variants) ==
    LET HasPrice(variant) == JsonTruthy(variant.price)
    IN SelectSeq(variants, HasPrice)

\* Lines 160-169.  float() raises ValueError on a price that does not parse:
\* raised tells so, and the exception leaves _extract_price_range.
ExtractPriceRange(variants) ==
    LET priced == PricedVariants(variants)
        prices == {FloatOf(priced[i].price) : i \in 1..Len(priced)}
    IN IF variants = <<>> THEN [raised |-> FALSE, value |-> PyDict(<<>>)]
       ELSE IF \E i \in 1..Len(priced) : ~FloatParses(priced[i].price)
            THEN [raised |-> TRUE, value |-> PyNone]
       ELSE IF prices # {}
            THEN [raised |-> FALSE,
                  value |-> PyDict([min_price |-> Min(prices), max_price |-> Max(prices)])]
       ELSE [raised |-> FALSE, value |-> PyDict(<<>>)]

\* -------------------------------------------------- catalog (lines 125-156)

\* str.split(','): "," is a token of its own.
RECURSIVE PySplit(_, _)
PySplit(s, cur) ==
    IF s = <<>> THEN <<cur>>
    ELSE IF Head(s) = "," THEN <<cur>> \o PySplit(Tail(s), <<>>)
    ELSE PySplit(Tail(s), Append(cur, Head(s)))

\* Line 142: tags is a comma-joined string; .split of a list (the tags of a
\* feed that lists them) raises AttributeError.
TagsRaise(product) == product.tags.t = "list" /\ product.tags.v # <<>>
TagsOf(product) ==
    IF JsonTruthy(product.tags) THEN PySplit(product.tags.v, <<>>) ELSE <<>>

\* Lines 136-147: one product of the feed.
ProductInfo(product, url) ==
    [id |-> product.id, title |-> product.title, handle |-> product.handle,
     vendor |-> product.vendor, product_type |-> product.product_type,
     tags |-> TagsOf(product),
     price_range |-> ExtractPriceRange(product.variants).value,
     available |-> \E i \in 1..Len(product.variants) : product.variants[i].available,
     images |-> product.images,
     url |-> UrlJoin(url, Rel(<<"products", product.handle>>))]

ProductRaises(product) ==
    TagsRaise(product) \/ ExtractPriceRange(product.variants).raised

\* ScrapeProducts without the return of line 156: a response that is not a
\* 200 falls off the end of the function, which then returns None.
ScrapeProductsNoDefault(r, url) ==
    IF r.err THEN PyList(<<>>)
    ELSE IF r.status # OkStatus THEN PyNone
    ELSE IF r.body.malformed THEN PyList(<<>>)
    ELSE PyList(<<>>)

\* Lines 127-156 after the GET: r is the response (err: the GET raised).  The
\* body of a 200 is the feed: malformed (response.json() raises) or its
\* products.  Any exception is caught at line 153 and line 156 returns [].
ScrapeProducts(r, url) ==
    IF r.err THEN PyList(<<>>)
    ELSE IF r.status # OkStatus THEN PyList(<<>>)
    ELSE IF r.body.malformed THEN PyList(<<>>)
    ELSE IF \E i \in 1..Len(r.body.products) : ProductRaises(r.body.products[i])
         THEN PyList(<<>>)
    ELSE PyList([i \in 1..Len(r.body.products) |-> ProductInfo(r.body.products[i], url)])

\* ----------------------------------------------------- FAQs (lines 246-285)

\* An FAQ page: the containers of class faq/question/accordion, each the
\* sequence of its child elements [tag, text] in document order.
Elem(tag, text) == [tag |-> tag, text |-> text]
QuestionTags == {"h1", "h2", "h3", "h4", "h5", "h6", "dt"}
AnswerTags == {"p", "div", "dd"}

\* find_next_sibling() without its tag filter: the next sibling, whatever it
\* is.
FindNextSiblingAnyTag(section, q) == IF q < Len(section) THEN q + 1 ELSE 0

\* Line 268: q.find_next_sibling(['p', 'div', 'dd']), the nearest later
\* sibling with one of these tags (0: none).
FindNextSibling(section, q) ==
    LET later == {j \in (q + 1)..Len(section) : section[j].tag \in AnswerTags}
    IN IF later = {} THEN 0 ELSE Min(later)

\* Lines 265-269.
QuestionText(section, q) == PyStrip(section[q].text)
AnswerText(section, q) ==
    LET a == FindNextSibling(section, q)
    IN IF a = 0 THEN <<>> ELSE PyStrip(section[a].text)

\* Lines 264-275: whether child q of the section yields an FAQ.
IsFaq(section, q) ==
    /\ section[q].tag \in QuestionTags
    /\ QuestionText(section, q) # <<>>
    /\ \E i \in 1..Len(QuestionText(section, q)) : QuestionText(section, q)[i] = "?"
    /\ AnswerText(section, q) # <<>>

RECURSIVE SectionFaqs(_, _)
SectionFaqs(section, q) ==
    IF q > Len(section) THEN <<>>
    ELSE (IF IsFaq(section, q)
          THEN <<[question |-> QuestionText(section, q),
                  answer |-> AnswerText(section, q)]>>
          ELSE <<>>) \o SectionFaqs(section, q + 1)

\* Lines 260-275: the FAQs of a page, section by section.
RECURSIVE PageFaqs(_)
PageFaqs(page) ==
    IF page = <<>> THEN <<>>
    ELSE SectionFaqs(Head(page), 1) \o PageFaqs(Tail(page))

\* ------------------------------------------ contact details (lines 328-404)

AddressMinLen == 20

\* email_pattern (lines 333, 387) on the tokens of the samples.
IsEmail(tok) == tok \in {"hi@acme.com", "noreply@acme.com"}
\* Lines 343-344: noreply, no-reply, admin, webmaster in the address.
IsExcludedEmail(tok) == tok \in {"noreply@acme.com"}

\* phone_pattern (lines 335, 393) has one capturing group, the optional
\* country-code prefix: re.findall returns that group for each match.
IsPhone(tok) == tok \in {"+1 555-123-4567", "555-987-6543"}
PhoneGroup(tok) == IF tok = "+1 555-123-4567" THEN "+1 " ELSE ""

\* The address keywords of line 354 found in a text node, and len() of the
\* text of its parent element.
HasAddressKeyword(keyword, tok) ==
    \/ keyword = "address" /\ tok = "Address: 1 Main Street, Springfield"
    \/ keyword = "office" /\ tok = "Our office"
NodeLen(tok) ==
    CASE tok = "Address: 1 Main Street, Springfield" -> 35
      [] tok = "Our office" -> 10
      [] OTHER -> 1
AddressKeywords == <<"address", "location", "office", "store location">>

Range(s) == {s[i] : i \in 1..Len(s)}

\* Lines 355-363: the first keyword whose first matching text node has a
\* parent text longer than 20 characters gives the address (<<>>: none).
RECURSIVE AddressFrom(_, _)
AddressFrom(keywords, text) ==
    IF keywords = <<>> THEN <<>>
    ELSE LET hit == {i \in 1..Len(text) : HasAddressKeyword(Head(keywords), text[i])}
         IN IF hit # {} /\ NodeLen(text[Min(hit)]) > AddressMinLen
            THEN <<text[Min(hit)]>>
            ELSE AddressFrom(Tail(keywords), text)

\* Lines 330-363: what the homepage gives, a dict given by the keys it
\* holds; list(set(...)) is held as the set.
HomeContact(doc) ==
    LET isContact(tok) == IsEmail(tok) /\ ~IsExcludedEmail(tok)
        emails == Range(SelectSeq(doc.text, isContact))
        phones == {PhoneGroup(tok) : tok \in Range(SelectSeq(doc.text, IsPhone))}
        address == AddressFrom(AddressKeywords, doc.text)
        keys == (IF emails # {} THEN {"emails"} ELSE {})
                \cup (IF phones # {} THEN {"phones"} ELSE {})
                \cup (IF address # <<>> THEN {"address"} ELSE {})
        val(k) == CASE k = "emails" -> emails
                    [] k = "phones" -> phones
                    [] OTHER -> address
    IN [k \in keys |-> val(k)]

\* Lines 384-398: what the text of a contact page gives.
ContactPageInfo(text) ==
    LET emails == Range(SelectSeq(text, IsEmail))
        phones == {PhoneGroup(tok) : tok \in Range(SelectSeq(text, IsPhone))}
        keys == (IF emails # {} THEN {"contact_page_emails"} ELSE {})
                \cup (IF phones # {} THEN {"contact_page_phones"} ELSE {})
        val(k) == IF k = "contact_page_emails" THEN emails ELSE phones
    IN [k \in keys |-> val(k)]

\* dict.update, lines 367-368.
DictUpdate(d, e) ==
    [k \in (DOMAIN d) \cup (DOMAIN e) |-> IF k \in DOMAIN e THEN e[k] ELSE d[k]]

\* ------------------------------------------ important links (lines 427-482)

Categories == <<"order_tracking", "blog", "support", "shipping", "size_guide",
                "gift_cards", "wholesale">>

\* important_patterns, lines 432-440: the categories one of whose keywords
\* occurs in the lower-cased token.
TokenCategories(tok) ==
    CASE tok \in {"blogs", "news", "Blog"} -> {"blog"}
      [] tok \in {"track-order", "Tracking"} -> {"order_tracking"}
      [] tok \in {"Help", "support"} -> {"support"}
      [] tok = "shipping-tracking" -> {"order_tracking", "shipping"}
      [] OTHER -> {}

\* Lines 457-462: keyword in href or keyword in text, for a category.
LinkMatches(category, link) ==
    \E tok \in Range(link.href.host) \cup Range(link.href.path) \cup Range(link.text) :
        category \in TokenCategories(tok)

\* Lines 443-453: the anchors of nav/header/footer, then every anchor.
NavLinks(doc) ==
    LET InNav(a) == a.nav
    IN SelectSeq(doc.links, InNav) \o doc.links

\* Lines 456-472 for one category: the first matching link (0: none).
CategoryLink(category, nav_links) ==
    LET hit == {i \in 1..Len(nav_links) : LinkMatches(category, nav_links[i])}
    IN IF hit = {} THEN 0 ELSE Min(hit)

\* Lines 475-480 without the seen_urls test: every recorded entry is kept.
UniqueLinksKeepAll(links, seen_urls) == links

\* Lines 475-480.
RECURSIVE UniqueLinks(_, _)
UniqueLinks(links, seen_urls) ==
    IF links = <<>> THEN <<>>
    ELSE IF Head(links).url \in seen_urls THEN UniqueLinks(Tail(links), seen_urls)
    ELSE <<Head(links)>> \o UniqueLinks(Tail(links), seen_urls \cup {Head(links).url})

\* Lines 455-482.  urljoin (line 463) raises ValueError on a bad href and
\* nothing in the extractor catches it.
ExtractImportantLinks(doc, url) ==
    LET nav_links == NavLinks(doc)
        found == SelectSeq(Categories, LAMBDA c : CategoryLink(c, nav_links) # 0)
        entry(c) == LET link == nav_links[CategoryLink(c, nav_links)]
                    IN [category |-> c, title |-> PyStrip(link.text),
                        url |-> UrlJoin(url, link.href)]
    IN IF \E i \in 1..Len(found) : nav_links[CategoryLink(found[i], nav_links)].href.bad
       THEN [raised |-> TRUE, value |-> PyNone]
       ELSE [raised |-> FALSE,
             value |-> PyList(UniqueLinks([i \in 1..Len(found) |-> entry(found[i])], {}))]

\* ------------------------------------------------------------ HTTP responses

\* What session.get gives: err when it raised a requests.RequestException
\* (connection failure, timeout), else the status and the body, seen as what
\* the extractor reads from it (parsed document, decoded feed, or the text
\* trafilatura.extract returns: a string or None).
ErrResp == [err |-> TRUE, status |-> 0, body |-> PyNone]
Http(status, body) == [err |-> FALSE, status |-> status, body |-> body]

\* ----------------------------------------------- path probers (lines 218-425)

PrivacyPaths == <<"privacy", "privacy-policy", "policies/privacy-policy">>
ReturnPaths == <<"return", "refund", "returns", "refunds", "shipping-returns",
                 "policies/refund-policy">>
FaqPaths == <<"faq", "faqs", "help", "support", "pages/faq">>
ContactPaths == <<"contact", "contact-us", "pages/contact", "pages/contact-us">>
AboutPaths == <<"about", "about-us", "pages/about", "pages/about-us", "our-story",
                "pages/our-story">>

\* PolicyAccepts with >= in place of > at line 236.
PolicyAcceptsAtLeast(r) ==
    /\ ~r.err
    /\ r.status = OkStatus
    /\ Truthy(r.body)
    /\ PyLen(PyStrip(r.body.v)) >= MinPolicyLen

\* Lines 233-238 (_scrape_policy_page) and 415-419 (_scrape_brand_context):
\* whether the response ends the loop with a result, and the result.
PolicyAccepts(r) ==
    /\ ~r.err
    /\ r.status = OkStatus
    /\ Truthy(r.body)
    /\ PyLen(PyStrip(r.body.v)) > MinPolicyLen
PolicyText(r) == PyStr(PyStrip(r.body.v))

BrandAccepts(r) ==
    /\ ~r.err
    /\ r.status = OkStatus
    /\ Truthy(r.body)
    /\ PyLen(PyStrip(r.body.v)) > MinPolicyLen
BrandText(r) == PyStr(PyStrip(r.body.v))

\* Lines 255-279 (_scrape_faqs): a 200 whose page yields FAQs.
FaqAccepts(r) == ~r.err /\ r.status = OkStatus /\ PageFaqs(r.body) # <<>>
FaqList(r) == PyList(PageFaqs(r.body))

\* Lines 381-398 (_scrape_contact_page): a 200 with extracted text.
ContactAccepts(r) == ~r.err /\ r.status = OkStatus /\ Truthy(r.body)
ContactInfo(r) == ContactPageInfo(r.body.v)

\* NextCandidate with break in place of continue: the loop ends at the first
\* candidate that gave nothing.
NextCandidateBreak(i, paths) == 0

\* The loop of every prober (lines 228/242, 250/283, 376/402, 410/423): after
\* a candidate that gave nothing, by exception or not, the next candidate;
\* 0 after the last one.
NextCandidate(i, paths) == IF i < Len(paths) THEN i + 1 ELSE 0

\* ------------------------------------------- orchestrator (lines 20-76)

FieldNames == {"store_name", "website_url", "products", "hero_products",
               "privacy_policy", "return_policy", "faqs", "social_handles",
               "contact_details", "brand_context", "important_links"}

\* Lines 44-56.
InitialInsights(store_name, url) ==
    [store_name |-> store_name, website_url |-> url,
     products |-> PyList(<<>>), hero_products |-> PyList(<<>>),
     privacy_policy |-> PyStr(<<>>), return_policy |-> PyStr(<<>>),
     faqs |-> PyList(<<>>), social_handles |-> PyDict(<<>>),
     contact_details |-> PyDict(<<>>), brand_context |-> PyStr(<<>>),
     important_links |-> PyList(<<>>)]

\* HomeUnreachable testing for an error status (>= 400) instead of != 200.
HomeUnreachableOnError(r) == r.err \/ r.status >= 400

\* Lines 30-33 and 71-73: the homepage GET raised, or its status is not 200.
HomeUnreachable(r) == r.err \/ r.status # OkStatus

NoDoc == Doc(PyNone, PyNone, <<>>, <<>>, <<>>)
NoUrl == Url("", <<>>, <<>>)

\* --------------------------------------------------- the inputs of a scrape

InputUrls == {Url("", <<"www.", "acme-goods", ".com">>, <<>>),
              Url("http://", <<"acme", ".myshopify", ".com">>, <<>>)}

ProductAnchor == Anchor(Rel(<<"products", "tee">>), <<"Tee">>, "tee.jpg", <<"$10">>, FALSE)
BlogAnchor == Anchor(Rel(<<"blogs", "news">>), <<WS, "Blog", WS>>, "", <<>>, TRUE)
BadBlogAnchor == Anchor(BadHref(<<"blogs", "news">>), <<"News">>, "", <<>>, FALSE)
InstagramAnchor ==
    Anchor(Url("https://", <<"instagram", ".com">>, <<"acmeshop">>), <<>>, "ig.png", <<>>, TRUE)
HomeAnchors == {ProductAnchor, BlogAnchor, BadBlogAnchor, InstagramAnchor}

HomeTitle == PyStr(<<"Acme", WS, "-", WS, "Shop">>)
HomeText == <<"Follow", "@acme_ig", "hi@acme.com", "+1 555-123-4567">>
HomeDocs ==
    {Doc(HomeTitle, PyNone, <<>>, links, HomeText) : links \in SeqsUpTo(HomeAnchors, MaxHomeLinks)}

HomeStatuses == {OkStatus, 204, 404, 500}
HomeResponses ==
    {ErrResp} \cup {Http(OkStatus, d) : d \in HomeDocs}
    \cup {Http(st, Doc(HomeTitle, PyNone, <<>>, <<>>, HomeText)) : st \in HomeStatuses}

Variant(price, available) == [price |-> price, available |-> available]
Product(id, handle, tags, variants) ==
    [id |-> id, title |-> <<"Tee">>, handle |-> handle, vendor |-> "Acme",
     product_type |-> "Shirts", tags |-> tags, variants |-> variants,
     images |-> <<"tee.jpg">>]
Feed(products) == [malformed |-> FALSE, products |-> products]
MalformedFeed == [malformed |-> TRUE, products |-> <<>>]

TeeProduct ==
    Product(1, "tee", PyStr(<<"new", ",", "cotton">>),
            <<Variant(PyStr(<<"10.00">>), TRUE), Variant(PyStr(<<"25.00">>), FALSE)>>)
CapProduct == Product(2, "cap", PyNone, <<Variant(PyStr(<<"N/A">>), TRUE)>>)
BagProduct == Product(3, "bag", PyList(<<"sale">>), <<Variant(PyNone, FALSE)>>)

FeedResponses ==
    {ErrResp, Http(404, MalformedFeed), Http(OkStatus, MalformedFeed),
     Http(OkStatus, Feed(<<>>)), Http(OkStatus, Feed(<<TeeProduct>>)),
     Http(OkStatus, Feed(<<TeeProduct, CapProduct>>)),
     Http(OkStatus, Feed(<<TeeProduct, BagProduct>>))}

\* Extracted texts: 100 characters after stripping, and more than 100.
ShortText == PyStr(<<WS, Lorem>>)
LongText == PyStr(<<WS, Lorem, "x", WS>>)
OtherLongText == PyStr(<<Lorem, "x", "x">>)
PageResponses ==
    {ErrResp, Http(404, PyNone), Http(204, LongText), Http(OkStatus, PyNone),
     Http(OkStatus, ShortText), Http(OkStatus, LongText)}

FaqSection == <<Elem("h3", <<"Why", "?">>), Elem("p", <<WS, "Because">>)>>
FaqResponses ==
    {ErrResp, Http(404, <<>>), Http(OkStatus, <<>>), Http(OkStatus, <<FaqSection>>)}

ContactResponses ==
    {ErrResp, Http(404, PyNone), Http(OkStatus, PyNone),
     Http(OkStatus, PyStr(<<"Call", "555-987-6543", "noreply@acme.com">>))}

NoResp == [err |-> FALSE, status |-> 0, body |-> PyNone]

\* ------------------------------------------------------ scrape_store, steps

Init ==
    /\ pc = "start"
    /\ website_url = NoUrl
    /\ response = NoResp
    /\ soup = NoDoc
    /\ insights = PyNone
    /\ outcome = "running"
    /\ fetched = NoResp
    /\ idx = 1
    /\ arg = PyNone
    /\ res = PyNone
    /\ tried = <<>>

\* Lines 24-56: normalize, GET the homepage, parse it, name the store.
Start ==
    /\ pc = "start"
    /\ \E u \in InputUrls, r \in HomeResponses :
        /\ website_url' = NormalizeUrl(u)
        /\ response' = r
        /\ IF HomeUnreachable(r)
           THEN /\ outcome' = "not_found"
                /\ pc' = "done"
                /\ UNCHANGED <<soup, insights>>
           ELSE /\ soup' = r.body
                /\ insights' = InitialInsights(ExtractStoreName(r.body, NormalizeUrl(u)),
                                               NormalizeUrl(u))
                /\ pc' = "products"
                /\ UNCHANGED outcome
    /\ UNCHANGED <<fetched, idx, arg, res, tried>>

\* Line 59.
Products ==
    /\ pc = "products"
    /\ \E r \in FeedResponses :
        /\ fetched' = r
        /\ insights' = [insights EXCEPT !.products = ScrapeProducts(r, website_url)]
    /\ pc' = "hero"
    /\ UNCHANGED <<website_url, response, soup, outcome, idx, arg, res, tried>>

\* Line 60.
Hero ==
    /\ pc = "hero"
    /\ insights' = [insights EXCEPT !.hero_products = ScrapeHeroProducts(soup, website_url)]
    /\ pc' = "privacy"
    /\ UNCHANGED <<website_url, response, soup, outcome, fetched, idx, arg, res, tried>>

\* One iteration of a prober's loop on the response r of its GET: a response
\* that is accepted gives the field and ends the extractor, any other leads
\* to the next candidate, and after the last candidate the extractor returns
\* its default.
ProbeStep(field, paths, next, r, accepted, value, default) ==
    /\ fetched' = r
    /\ IF accepted
       THEN /\ insights' = [insights EXCEPT ![field] = value]
            /\ pc' = next
            /\ idx' = 1
       ELSE IF NextCandidate(idx, paths) # 0
       THEN /\ idx' = NextCandidate(idx, paths)
            /\ UNCHANGED <<pc, insights>>
       ELSE /\ insights' = [insights EXCEPT ![field] = default]
            /\ pc' = next
            /\ idx' = 1
    /\ UNCHANGED <<website_url, response, soup, outcome, arg, res>>

\* Line 61, lines 226-244.
PrivacyStep(r) ==
    /\ pc = "privacy"
    /\ ProbeStep("privacy_policy", PrivacyPaths, "return", r,
                 PolicyAccepts(r), PolicyText(r), PyStr(<<>>))
PrivacyGet == (\E r \in PageResponses : PrivacyStep(r)) /\ UNCHANGED tried

\* Line 62, lines 226-244.
ReturnStep(r) ==
    /\ pc = "return"
    /\ ProbeStep("return_policy", ReturnPaths, "faqs", r,
                 PolicyAccepts(r), PolicyText(r), PyStr(<<>>))
ReturnGet == (\E r \in PageResponses : ReturnStep(r)) /\ UNCHANGED tried

\* Line 63, lines 246-285.
FaqGet ==
    /\ pc = "faqs"
    /\ \E r \in FaqResponses :
        ProbeStep("faqs", FaqPaths, "social", r, FaqAccepts(r), FaqList(r), PyList(<<>>))
    /\ UNCHANGED tried

\* Line 64.
Social ==
    /\ pc = "social"
    /\ insights' = [insights EXCEPT !.social_handles = ExtractSocialHandles(soup)]
    /\ pc' = "contact"
    /\ UNCHANGED <<website_url, response, soup, outcome, fetched, idx, arg, res, tried>>

\* Line 65, lines 328-404: the contact page is probed, and what it gives is
\* merged into what the homepage gave.
ContactGet ==
    /\ pc = "contact"
    /\ \E r \in ContactResponses :
        ProbeStep("contact_details", ContactPaths, "brand", r, ContactAccepts(r),
                  PyDict(DictUpdate(HomeContact(soup), ContactInfo(r))),
                  PyDict(HomeContact(soup)))
    /\ UNCHANGED tried

\* Line 66, lines 406-425.
BrandStep(r) ==
    /\ pc = "brand"
    /\ ProbeStep("brand_context", AboutPaths, "links", r,
                 BrandAccepts(r), BrandText(r), PyStr(<<>>))
BrandGet == (\E r \in PageResponses : BrandStep(r)) /\ UNCHANGED tried

\* Lines 67-69 and 74-76: an exception of the important-links extractor
\* reaches the except clause of scrape_store, which raises it again.
Links ==
    /\ pc = "links"
    /\ LET r == ExtractImportantLinks(soup, website_url)
       IN IF r.raised
          THEN /\ outcome' = "raised"
               /\ UNCHANGED insights
          ELSE /\ outcome' = "profile"
               /\ insights' = [insights EXCEPT !.important_links = r.value]
    /\ pc' = "done"
    /\ UNCHANGED <<website_url, response, soup, fetched, idx, arg, res, tried>>

Next ==
    \/ Start
    \/ Products
    \/ Hero
    \/ PrivacyGet
    \/ ReturnGet
    \/ FaqGet
    \/ Social
    \/ ContactGet
    \/ BrandGet
    \/ Links

Spec == Init /\ [][Next]_vars

\* ------------------------------------------------------------------ claims

HomepageOk == ~response.err /\ response.status = 200
Success(status) == status \in 200..299

\* C1: after a 200 homepage no exception of a field extractor leaves scrape:
\* scrape returns a StoreProfile, and the field of an extractor that raised
\* holds its empty value.
C1_ExtractorExceptionsAbsorbed ==
    (pc = "done" /\ HomepageOk) =>
        /\ outcome = "profile"
        /\ (\E i \in 1..Len(soup.links) : soup.links[i].href.bad) =>
               insights.important_links = PyList(<<>>)

\* C2 as stated: scrape returns NOT_FOUND exactly when the homepage GET fails
\* or answers non-2xx.
C2_NotFoundIffNon2xx ==
    pc = "done" =>
        (outcome = "not_found" <=> (response.err \/ ~Success(response.status)))

\* C2 as amended: scrape returns NOT_FOUND exactly when the homepage GET fails
\* or answers with a status other than 200, and then no other page was
\* requested.
C2_NotFoundIffNot200 ==
    pc = "done" =>
        /\ outcome = "not_found" <=> (response.err \/ response.status # 200)
        /\ outcome = "not_found" => fetched = NoResp

C2_Witness == pc = "done" /\ outcome = "not_found" /\ response.status = 204

DeclaredType(f) ==
    CASE f \in {"store_name", "privacy_policy", "return_policy", "brand_context"} -> "str"
      [] f \in {"products", "hero_products", "faqs", "important_links"} -> "list"
      [] OTHER -> "dict"

\* C3: what scrape returns, when it is not NOT_FOUND, holds the eleven
\* declared fields, each of its declared type and none null.
C3_ProfileShape ==
    outcome = "profile" =>
        /\ DOMAIN insights = FieldNames
        /\ insights.website_url.scheme \in {"http://", "https://"}
        /\ \A f \in FieldNames \ {"website_url"} : insights[f].t = DeclaredType(f)

C3_Witness ==
    /\ outcome = "profile"
    /\ fetched.err
    /\ insights.products = PyList(<<>>)
    /\ insights.faqs # PyList(<<>>)

SubFetchPhases == {"products", "privacy", "return", "faqs", "contact", "brand"}
PathsOf(phase) ==
    CASE phase = "products" -> <<"products.json">>
      [] phase = "privacy" -> PrivacyPaths
      [] phase = "return" -> ReturnPaths
      [] phase = "faqs" -> FaqPaths
      [] phase = "contact" -> ContactPaths
      [] OTHER -> AboutPaths
FieldOf(phase) ==
    CASE phase = "products" -> "products"
      [] phase = "privacy" -> "privacy_policy"
      [] phase = "return" -> "return_policy"
      [] phase = "faqs" -> "faqs"
      [] phase = "contact" -> "contact_details"
      [] OTHER -> "brand_context"
PhaseAfter(phase) ==
    CASE phase = "products" -> "hero"
      [] phase = "privacy" -> "return"
      [] phase = "return" -> "faqs"
      [] phase = "faqs" -> "social"
      [] phase = "contact" -> "brand"
      [] OTHER -> "links"
ContactPageKeys == {"contact_page_emails", "contact_page_phones"}

\* C4: a sub-page GET that fails (exception or non-2xx answer) ends neither
\* the scrape nor the extractor: every other field keeps its value, the next
\* candidate path of the field is tried, and after the last candidate the
\* field holds its empty value (for contact_details: nothing of a contact
\* page) and the scrape goes on to the next extractor.
C4_SubFetchFailureIsLocal ==
    [][(pc \in SubFetchPhases /\ (fetched'.err \/ ~Success(fetched'.status))) =>
          /\ outcome' = "running"
          /\ \A f \in FieldNames \ {FieldOf(pc)} : insights'[f] = insights[f]
          /\ IF idx < Len(PathsOf(pc))
             THEN pc' = pc /\ idx' = idx + 1 /\ insights' = insights
             ELSE /\ pc' = PhaseAfter(pc)
                  /\ insights'[FieldOf(pc)].t = DeclaredType(FieldOf(pc))
                  /\ IF pc = "contact"
                     THEN DOMAIN insights'.contact_details.v \cap ContactPageKeys = {}
                     ELSE insights'[FieldOf(pc)].v = <<>>]_vars

C4_Witness ==
    /\ outcome = "profile"
    /\ fetched.err
    /\ insights.privacy_policy # PyStr(<<>>)
    /\ insights.brand_context = PyStr(<<>>)

\* ------------------------------------------- the path prober, on its own

\* One call of a prober (privacy, returns, about), from its first GET to its
\* return, with every GET it issues recorded in tried.
ProbeResponses == PageResponses \cup {Http(OkStatus, OtherLongText)}
ProbeUrl == Url("https://", <<"acme", ".com">>, <<>>)

InitProbe ==
    /\ pc \in {"privacy", "return", "brand"}
    /\ arg = pc
    /\ website_url = ProbeUrl
    /\ response = Http(OkStatus, NoDoc)
    /\ soup = NoDoc
    /\ insights = InitialInsights(ExtractStoreName(NoDoc, ProbeUrl), ProbeUrl)
    /\ outcome = "running"
    /\ fetched = NoResp
    /\ idx = 1
    /\ res = PyNone
    /\ tried = <<>>

ProbePrivacy ==
    /\ arg = "privacy"
    /\ \E r \in ProbeResponses :
        /\ PrivacyStep(r)
        /\ tried' = Append(tried, [path |-> PrivacyPaths[idx], resp |-> r])

ProbeReturn ==
    /\ arg = "return"
    /\ \E r \in ProbeResponses :
        /\ ReturnStep(r)
        /\ tried' = Append(tried, [path |-> ReturnPaths[idx], resp |-> r])

ProbeBrand ==
    /\ arg = "brand"
    /\ \E r \in ProbeResponses :
        /\ BrandStep(r)
        /\ tried' = Append(tried, [path |-> AboutPaths[idx], resp |-> r])

NextProbe ==
    \/ ProbePrivacy
    \/ ProbeReturn
    \/ ProbeBrand

SpecProbe == InitProbe /\ [][NextProbe]_vars

\* A candidate that answers 200 with extracted text whose stripped form is
\* longer than 100 characters.
Qualifies(r) ==
    /\ ~r.err
    /\ r.status = 200
    /\ r.body.t = "str"
    /\ PyLen(PyStrip(r.body.v)) > 100

\* C5: the prober GETs its candidates in the order of its path list, without
\* gap or repeat; a qualifying candidate is the last one it GETs; it returns
\* the stripped text of that candidate and, when it has tried every
\* candidate and none qualified, "".
C5_FirstQualifyingCandidate ==
    LET paths == PathsOf(arg)
        qualifying == {i \in 1..Len(tried) : Qualifies(tried[i].resp)}
    IN /\ Len(tried) <= Len(paths)
       /\ \A i \in 1..Len(tried) : tried[i].path = paths[i]
       /\ qualifying \subseteq {Len(tried)}
       /\ pc = arg => qualifying = {} /\ Len(tried) < Len(paths)
       /\ pc # arg =>
            IF qualifying = {}
            THEN Len(tried) = Len(paths) /\ insights[FieldOf(arg)] = PyStr(<<>>)
            ELSE insights[FieldOf(arg)] = PyStr(PyStrip(tried[Len(tried)].resp.body.v))

C5_Witness ==
    /\ arg = "brand"
    /\ pc = "links"
    /\ Len(tried) = 3
    /\ tried[1].resp.err
    /\ tried[2].resp = Http(200, ShortText)
    /\ tried[3].resp = Http(200, LongText)
    /\ insights.brand_context = PyStr(<<Lorem, "x">>)

\* ------------------------------------------- the extractors, each on its own

\* One call of an extractor: arg is its input, res what it returns.
Idle ==
    /\ website_url = ProbeUrl
    /\ response = NoResp
    /\ soup = NoDoc
    /\ insights = PyNone
    /\ outcome = "running"
    /\ fetched = NoResp
    /\ idx = 1
    /\ res = PyNone
    /\ tried = <<>>

Return(value) ==
    /\ pc = "call"
    /\ res' = value
    /\ pc' = "return"
    /\ UNCHANGED <<website_url, response, soup, insights, outcome, fetched, idx, arg, tried>>

KthOf(S, k) == CHOOSE x \in S : Cardinality({y \in S : y <= x}) = k

\* Homepages of product links: every pattern of repeated and fresh hrefs up
\* to MaxHeroLinks links (the k-th fresh href is HrefNames[k]), one of the
\* links possibly without title and image.
HrefNames == <<"p1", "p2", "p3", "p4", "p5", "p6", "p7", "p8", "p9", "p10">>
RECURSIVE Growth(_)
Growth(n) ==
    IF n = 0 THEN {<<>>}
    ELSE UNION {{Append(g, k) : k \in 1..(Cardinality(Range(g)) + 1)} : g \in Growth(n - 1)}
HeroAnchor(k, bare) ==
    Anchor(Rel(<<"products", HrefNames[k]>>), IF bare THEN <<WS>> ELSE <<HrefNames[k], WS>>,
           IF bare THEN "" ELSE "img.jpg", <<>>, FALSE)
HeroDocs(max) ==
    {Doc(PyNone, PyNone, <<>>, [i \in 1..Len(gb[1]) |-> HeroAnchor(gb[1][i], i = gb[2])], <<>>) :
        gb \in {x \in (UNION {Growth(n) : n \in 0..max}) \X (0..max) : x[2] <= Len(x[1])}}

InitHero == pc = "call" /\ arg \in HeroDocs(MaxHeroLinks) /\ Idle
RunHero == Return(ScrapeHeroProducts(arg, website_url))
SpecHero == InitHero /\ [][RunHero]_vars

SocialAnchors ==
    {Anchor(h, <<>>, "", <<>>, FALSE) :
        h \in {Url("https://", <<"instagram", ".com">>, <<"acmeshop">>),
               Url("https://", <<"www.", "instagram", ".com">>, <<"other">>),
               Url("mailto:", <<>>, <<"hi@acme.com">>),
               Url("https://", <<"twitter", ".com">>, <<"acme">>),
               Url("https://", <<"x", ".com">>, <<"acme_x">>),
               Url("https://", <<"www.", "tiktok", ".com">>, <<"@acmetok">>),
               Rel(<<"collections", "all">>)}}
SocialTexts == {<<>>, <<"Follow", "@acme_ig">>, <<"twitter.com/tw_text">>,
                <<"instagram.com/ig_text", "@acme_ig", "facebook.com/fb_text">>}
SocialDocs(max) ==
    {Doc(PyNone, PyNone, <<>>, links, text) :
        links \in SeqsUpTo(SocialAnchors, max), text \in SocialTexts}

InitSocial == pc = "call" /\ arg \in SocialDocs(MaxSocialLinks) /\ Idle
RunSocial == Return(ExtractSocialHandles(arg))
SpecSocial == InitSocial /\ [][RunSocial]_vars

TitleTokens == {WS, "Acme", "-", "|", "Shop", "store"}
SiteNames == {PyNone, PyStr(<<>>), PyStr(<<WS>>), PyStr(<<WS, "Acme", WS>>)}
AltTexts == {PyNone, PyStr(<<>>), PyStr(<<"Logo">>), PyStr(<<"Acme">>)}
NameDocs(max) ==
    {Doc(PyStr(t), site, <<>>, <<>>, <<>>) :
        t \in SeqsUpTo(TitleTokens, max), site \in SiteNames}
    \cup {Doc(t, site, imgs, <<>>, <<>>) :
            t \in {PyNone, PyStr(<<"|", WS, "store">>)}, site \in SiteNames,
            imgs \in SeqsUpTo(AltTexts, 2)}
NameUrls ==
    {NormalizeUrl(u) : u \in InputUrls} \cup {Url("https://", <<"shop.", "example", ".io">>, <<>>)}

InitName == pc = "call" /\ arg \in [doc : NameDocs(MaxTitleLen), url : NameUrls] /\ Idle
RunName == Return(ExtractStoreName(arg.doc, arg.url))
SpecName == InitName /\ [][RunName]_vars

PriceValues ==
    {PyNone, PyStr(<<>>), PyStr(<<"10.00">>), PyStr(<<"25.00">>), PyStr(<<"N/A">>)}
FeedVariants == {Variant(price, available) : price \in PriceValues, available \in BOOLEAN}
PriceFeeds(max) ==
    UNION {{Feed(<<Product(7, "item", PyNone, variants)>>),
            Feed(<<TeeProduct, Product(7, "item", PyNone, variants)>>)} :
           variants \in SeqsUpTo(FeedVariants, max)}
PriceResponses(max) ==
    {ErrResp, Http(404, MalformedFeed), Http(OkStatus, MalformedFeed)}
    \cup {Http(OkStatus, feed) : feed \in PriceFeeds(max)}

InitPrice == pc = "call" /\ arg \in PriceResponses(MaxVariants) /\ Idle
RunPrice == Return(ScrapeProducts(arg, website_url))
SpecPrice == InitPrice /\ [][RunPrice]_vars

FaqElems ==
    {Elem("h3", <<"Why", "?">>), Elem("dt", <<WS, "How", "?">>), Elem("h3", <<"Note">>),
     Elem("p", <<WS, "Because", WS>>), Elem("p", <<WS>>), Elem("div", <<"So">>),
     Elem("dd", <<"Thus">>), Elem("span", <<"Icon">>), Elem("p", <<"Really", "?">>)}
FaqPages(max) ==
    {<<section>> : section \in SeqsUpTo(FaqElems, max)}
        \cup {<<FaqSection, section>> : section \in SeqsUpTo(FaqElems, 1)}

InitFaq == pc = "call" /\ arg \in {Http(OkStatus, page) : page \in FaqPages(MaxSiblings)} /\ Idle
RunFaq == Return(FaqList(arg))
SpecFaq == InitFaq /\ [][RunFaq]_vars

\* ------------------------------------------------ claims on the extractors

\* C6: the hero products are the first 6 distinct-by-href product links in
\* document order (a repeated href does not count toward the 6): at most 6
\* entries, no url twice, and when every link has a title or an image,
\* exactly the first occurrences of the first 6 distinct hrefs, in order.
C6_FirstSixDistinct ==
    pc = "return" =>
        LET links == arg.links
            firsts == {i \in 1..Len(links) :
                          \A j \in 1..(i - 1) : links[j].href # links[i].href}
            six == {i \in firsts : Cardinality({j \in firsts : j <= i}) <= 6}
            shown == \A i \in 1..Len(links) :
                        PyStrip(links[i].text) # <<>> \/ links[i].img # ""
        IN /\ Len(res.v) <= 6
           /\ \A k, l \in 1..Len(res.v) : res.v[k].url = res.v[l].url => k = l
           /\ shown =>
                /\ Len(res.v) = Cardinality(six)
                /\ \A k \in 1..Len(res.v) :
                      res.v[k].url = UrlJoin(website_url, links[KthOf(six, k)].href)

\* The entry C7 gives a platform: the first pattern that matches an anchor
\* decides, by its first matching anchor; the page text is read only when no
\* anchor matches any pattern of the platform.
AnchorPatterns(platform, doc) ==
    {k \in 1..Len(SocialPatterns(platform)) :
        FirstLinkMatch(SocialPatterns(platform)[k], doc.links) # 0}
TextPatterns(platform, doc) ==
    {k \in 1..Len(SocialPatterns(platform)) :
        SearchText(SocialPatterns(platform)[k], doc.text) # ""}
FirstMatchEntry(platform, doc) ==
    IF AnchorPatterns(platform, doc) # {}
    THEN LET pattern == SocialPatterns(platform)[Min(AnchorPatterns(platform, doc))]
             link == doc.links[FirstLinkMatch(pattern, doc.links)]
         IN PyDict([handle |-> SearchHref(pattern, link.href), url |-> link.href])
    ELSE LET pattern == SocialPatterns(platform)[Min(TextPatterns(platform, doc))]
             cap == SearchText(pattern, doc.text)
         IN PyDict([handle |-> cap, url |-> Url("https://", <<platform, ".com">>, <<cap>>)])

\* C7: first match wins per platform: the entry of a platform is its first
\* match, anchors before page text, and no later pattern or anchor replaces
\* it.
C7_FirstMatchWins ==
    pc = "return" =>
        /\ DOMAIN res.v = {p \in Range(Platforms) :
                              AnchorPatterns(p, arg) \cup TextPatterns(p, arg) # {}}
        /\ \A p \in DOMAIN res.v : res.v[p] = FirstMatchEntry(p, arg)

\* C8: the store name is a non-empty string.
C8_StoreNameNonEmpty == pc = "return" => res.t = "str" /\ res.v # <<>>

\* The range C9 gives a product: min and max over the variant prices that
\* parse as numbers, {} when there is none.
NumericPrices(variants) ==
    {FloatOf(variants[i].price) :
        i \in {j \in 1..Len(variants) :
                 variants[j].price.t = "str" /\ variants[j].price.v # <<>>
                 /\ FloatParses(variants[j].price)}}
ParsedRange(variants) ==
    IF NumericPrices(variants) = {} THEN PyDict(<<>>)
    ELSE PyDict([min_price |-> Min(NumericPrices(variants)),
                 max_price |-> Max(NumericPrices(variants))])

\* C9: every product of a feed fetched with success is in the catalog, with
\* the price range over its variant prices that parse as numbers; a variant
\* whose price is absent or does not parse is skipped.
C9_RangeOverParsedPrices ==
    (pc = "return" /\ ~arg.err /\ arg.status = 200 /\ ~arg.body.malformed) =>
        /\ Len(res.v) = Len(arg.body.products)
        /\ \A i \in 1..Len(res.v) :
              res.v[i].price_range = ParsedRange(arg.body.products[i].variants)

\* The questions of a page: <<s, q>> is child q of container s, a heading or
\* dt whose text holds "?".
FaqQuestions(page) ==
    {sq \in UNION {{<<s, q>> : q \in 1..Len(page[s])} : s \in 1..Len(page)} :
        /\ page[sq[1]][sq[2]].tag \in {"h1", "h2", "h3", "h4", "h5", "h6", "dt"}
        /\ "?" \in Range(page[sq[1]][sq[2]].text)}
IsAnswerElem(e) == e.tag \in {"p", "div", "dd"}

\* The element right after the question, when it is a p/div/dd (0: none).
ImmediateAnswer(page, sq) ==
    IF sq[2] < Len(page[sq[1]]) /\ IsAnswerElem(page[sq[1]][sq[2] + 1])
    THEN sq[2] + 1 ELSE 0

\* The nearest p/div/dd among the later siblings of the question (0: none).
NearestAnswer(page, sq) ==
    LET later == {a \in (sq[2] + 1)..Len(page[sq[1]]) : IsAnswerElem(page[sq[1]][a])}
    IN IF later = {} THEN 0 ELSE Min(later)

\* The FAQs emitted are the questions that Answer(page, sq) gives an element
\* of non-empty text, each with that text.
FaqsAre(page, faqs, Answer(_, _)) ==
    LET answered == {sq \in FaqQuestions(page) :
                        /\ Answer(page, sq) # 0
                        /\ PyStrip(page[sq[1]][Answer(page, sq)].text) # <<>>}
    IN /\ Len(faqs) = Cardinality(answered)
       /\ \A k \in 1..Len(faqs) :
            /\ faqs[k].answer # <<>>
            /\ \E sq \in answered :
                  /\ faqs[k].question = PyStrip(page[sq[1]][sq[2]].text)
                  /\ faqs[k].answer = PyStrip(page[sq[1]][Answer(page, sq)].text)

\* C10 as stated: the answer is the text of the element immediately after
\* the question, which must be a p/div/dd; other questions are dropped.
C10_AnswerIsImmediateSibling ==
    pc = "return" => FaqsAre(arg.body, res.v, ImmediateAnswer)

\* C10 as amended: the answer is the text of the nearest following sibling
\* that is a p/div/dd, whatever lies between; a question without such a
\* sibling, or whose nearest one has no text, is dropped.
C10_AnswerIsNearestAnswerSibling ==
    pc = "return" => FaqsAre(arg.body, res.v, NearestAnswer)

C10_Witness ==
    /\ pc = "return"
    /\ arg.body = <<(<<Elem("h3", <<"Why", "?">>), Elem("span", <<"Icon">>),
                      Elem("p", <<WS, "Because", WS>>)>>)>>
    /\ res.v = <<[question |-> <<"Why", "?">>, answer |-> <<"Because">>]>>

\* ------------------------------------------- important links (lines 427-482)

MaxNavLinks == 3

\* Homepages of up to MaxNavLinks anchors: two blog anchors of different
\* URLs, anchors of other categories that lead to the blog's URL (relative
\* and absolute), one anchor matching two categories, one matching none and
\* one whose href urljoin cannot split.
LinkAnchors ==
    {BlogAnchor,
     Anchor(Rel(<<"pages", "journal">>), <<"news">>, "", <<>>, FALSE),
     Anchor(Rel(<<"blogs", "news">>), <<"Help">>, "", <<>>, FALSE),
     Anchor(Url("https://", <<"acme", ".com">>, <<"blogs", "news">>), <<"Tracking">>, "", <<>>, TRUE),
     Anchor(Rel(<<"pages", "shipping-tracking">>), <<>>, "", <<>>, FALSE),
     ProductAnchor, BadBlogAnchor}
LinkDocs(max) ==
    {Doc(PyNone, PyNone, <<>>, links, <<>>) : links \in SeqsUpTo(LinkAnchors, max)}

InitLinks == pc = "call" /\ arg \in LinkDocs(MaxNavLinks) /\ Idle
RunLinks == Return(ExtractImportantLinks(arg, website_url))
SpecLinks == InitLinks /\ [][RunLinks]_vars

\* The candidate sequence: the anchors inside nav/header/footer, then every
\* anchor of the page.
Candidates(doc) ==
    [i \in 1..Cardinality({j \in 1..Len(doc.links) : doc.links[j].nav}) |->
        doc.links[KthOf({j \in 1..Len(doc.links) : doc.links[j].nav}, i)]] \o doc.links

\* The first candidate matching the category (0: none).
FirstCandidate(category, doc) ==
    LET cs == Candidates(doc)
        hit == {i \in 1..Len(cs) :
                   \E tok \in Range(cs[i].href.host) \cup Range(cs[i].href.path)
                                  \cup Range(cs[i].text) :
                       category \in TokenCategories(tok)}
    IN IF hit = {} THEN 0 ELSE Min(hit)

\* The absolute URL recorded for a category that has a candidate.
RecordedUrl(category, doc, base) ==
    LET h == Candidates(doc)[FirstCandidate(category, doc)].href
    IN IF h.scheme = "" THEN [h EXCEPT !.scheme = base.scheme, !.host = base.host] ELSE h

\* C11: the important links hold no absolute URL twice and no category
\* twice; each entry is the first candidate link of its category; a category
\* with a candidate is left out only when an earlier category recorded the
\* same absolute URL; the entries stand in the order they were recorded.
C11_UniqueByUrlFirstSeen ==
    (pc = "return" /\ ~res.raised) =>
        LET out == res.value.v
            CatIdx(c) == CHOOSE k \in 1..Len(Categories) : Categories[k] = c
            matched == {k \in 1..Len(Categories) : FirstCandidate(Categories[k], arg) # 0}
            kept == {k \in matched :
                        \A j \in matched :
                            j < k => RecordedUrl(Categories[j], arg, website_url)
                                        # RecordedUrl(Categories[k], arg, website_url)}
        IN /\ \A i, j \in 1..Len(out) :
                i # j => out[i].url # out[j].url /\ out[i].category # out[j].category
           /\ \A i \in 1..Len(out) :
                /\ out[i].category \in Range(Categories)
                /\ CatIdx(out[i].category) \in kept
                /\ out[i].url = RecordedUrl(out[i].category, arg, website_url)
                /\ out[i].title =
                      PyStrip(Candidates(arg)[FirstCandidate(out[i].category, arg)].text)
           /\ Len(out) = Cardinality(kept)
           /\ \A i, j \in 1..Len(out) :
                i < j => CatIdx(out[i].category) < CatIdx(out[j].category)

\* Two blog anchors of different URLs and a support anchor leading to the
\* first one's URL: only the first blog link is kept.
C11_Witness ==
    /\ pc = "return"
    /\ arg.links = <<BlogAnchor,
                     Anchor(Rel(<<"pages", "journal">>), <<"news">>, "", <<>>, FALSE),
                     Anchor(Rel(<<"blogs", "news">>), <<"Help">>, "", <<>>, FALSE)>>
    /\ ~res.raised
    /\ res.value.v = <<[category |-> "blog", title |-> <<"Blog">>,
                        url |-> Url("https://", <<"acme", ".com">>, <<"blogs", "news">>)]>>

\* ------------------------------------- store name from alt text (lines 114-123)

\* The first image in document order whose alt text is not empty (0: none).
FirstNonEmptyAlt(doc) ==
    LET full == {i \in 1..Len(doc.imgs) : doc.imgs[i].t = "str" /\ doc.imgs[i].v # <<>>}
    IN IF full = {} THEN 0 ELSE Min(full)

\* C12: when the title gives nothing and there is no site-name content, the
\* store name is the alt text of the first image whose alt text is not
\* empty, whatever empty alt attributes stand before it; it is the domain
\* name only when there is no such image or that alt text is "logo" or
\* "image" in any case.
C12_FirstNonEmptyAltIsName ==
    (/\ pc = "return"
     /\ TitleName(arg.doc) = <<>>
     /\ (arg.doc.site_name.t = "none" \/ arg.doc.site_name.v = <<>>))
    => LET k == FirstNonEmptyAlt(arg.doc)
       IN IF k # 0 /\ PyLower(PyStrip(arg.doc.imgs[k].v)) \notin {<<"logo">>, <<"image">>}
          THEN res = PyStr(PyStrip(arg.doc.imgs[k].v))
          ELSE res = PyStr(DomainName(arg.url))

\* ------------------------------------ phone numbers (lines 334-351, 392-396)

\* C13: every element of contact_details.phones and of contact_page_phones
\* is the whole text a match of the phone pattern covers, never only its
\* country-code prefix and never empty.
C13_PhonesAreWholeMatches ==
    outcome = "profile" =>
        \A k \in {"phones", "contact_page_phones"} \cap DOMAIN insights.contact_details.v :
            \A phone \in insights.contact_details.v[k] : phone # "" /\ IsPhone(phone)

====
